---- MODULE Spec2Model ----
(***************************************************************************)
(* Model of the gesture pipeline of handi-talk.                            *)
(*                                                                         *)
(*   Android shell  (MainActivity.kt): the smoothing buffer of             *)
(*     SignToSpeechApp.onPrediction, the label interpretation, Clear-all,  *)
(*     use-suggestion, speak, and the camera analyzer's hand-over; and the *)
(*     same callbacks statement by statement on their two threads, the     *)
(*     analyzer's executor thread and the UI thread (SpecThreads).         *)
(*   Web shell  (useHandGestureRecognition.ts:1-412, the hook the          *)
(*     GestureRecognition component of LoadingScreen.tsx uses): the demo   *)
(*     and the real-model detection loops, checkAutoActions with its two   *)
(*     100 ms timers, start/stop, and the component's                      *)
(*     handleGestureDetected / clearText / speakFullText.                  *)
(*   MediaPipe-based hook  (useHandGestureRecognition.ts:413-761): load,   *)
(*     start/stop, onResults and makePrediction with its throttle and      *)
(*     consensus buffer, delivering to the same component.                 *)
(*                                                                         *)
(* Confidences are fixed-point hundredths (0.6f is 60).  Strings are       *)
(* TLA+ strings; a character is a string of length 1.                      *)
(*                                                                         *)
(* Time.  Timestamps are kept relative to the present: Date.now() is 0, a  *)
(* stored timestamp is <= 0 (minus its age in ms) and a timer holds the ms *)
(* left until it is due.  Every callback carries the time that passed      *)
(* since the previous one; a stored timestamp stops ageing at a floor      *)
(* below which no comparison of the code can tell two values apart.        *)
(*                                                                         *)
(* React state.  A callback reads the state values committed before it     *)
(* ran (its closure's constants): a setX(v) it makes is visible to later   *)
(* callbacks only.  Each animation frame, timer and event is taken to run  *)
(* against the latest committed state.                                     *)
(* The mount effect is taken to run loadModel once.                        *)
(***************************************************************************)
EXTENDS Integers, Sequences, FiniteSets, TLC

VARIABLES
    \* ---- Android: SignToSpeechApp (MainActivity.kt:194-198)
    currentLetter,      \* var currentLetter
    sentence,           \* var sentence
    confidence,         \* var confidence (hundredths)
    firstLetter,        \* var firstLetter: Char?  (NoChar is null)
    predictionBuffer,   \* val predictionBuffer: list of <<label, conf>>
    \* ---- observation of the last onPrediction call (history, not program state)
    lastOutcome,        \* "none" | "buffered" | "accepted" | "discarded"
    lastTied,           \* the last decided window held its maximum more than once
    callsSinceEmpty,    \* onPrediction calls since the window was last empty
    rawConfidence,      \* <<conf>> of the model output the analyzer examined last, or <<>>
    \* ---- Android threads: where each thread stands inside its callback
    executor,           \* the analyzer's executor thread inside onPrediction:
                        \*   [pc, label, read], read being the sentence it has read
    mainThread,         \* the UI thread inside onClearAll: "idle" | "clearing"
    \* ---- which shell this run is: "android" | "web"
    shell,
    \* ---- Web hook: useHandGestureRecognition (useHandGestureRecognition.ts:24-46)
    isLoading, isModelLoaded, modelRef, error,
    stream,                 \* MediaStream set (TRUE) or null (FALSE)
    animationFrameRef,      \* the scheduled frame callback: "none" | "simulate" | "real"
    predictionBufferRef,    \* useRef<string[]>([])
    lastPredictionTimeRef,  \* relative timestamp
    lastDetectionTime,      \* relative timestamp
    spaceGestureStartTime,  \* relative timestamp or Null
    autoSpeakTimerRef,      \* ms until the pending timer fires, or NoTimer
    autoClearTimerRef,      \* ms until the pending timer fires, or NoTimer
    currentGesture,         \* label of the GestureResult shown, or "null"
    inflight,               \* realGestureDetection awaiting prediction.data():
                            \*   <<>> or <<currentTime>> (relative)
    \* ---- Web component: GestureRecognition (LoadingScreen.tsx:93-96)
    recognizedText, gestureHistory, speechEnabled,
    \* ---- what the last step did (history, not program state)
    lastStep,           \* name of the callback that ran
    tickTime,           \* currentTime handed to checkAutoActions by the step, or NoTick
    raw,                \* <<label, conf>> of the raw prediction of the step, or <<>>
    delivered,          \* gesture handed to onGestureDetected by the step, or "none"
    spoken,             \* text handed to speechSynthesis.speak by the step, or "none"
    toast,              \* titles of the toasts the step showed, in order
    rawSinceGesture,    \* raw predictions since the last delivered gesture (capped)
    rawAtDelivery,      \* rawSinceGesture when the step delivered its gesture
    clearsSinceSet,     \* AUTO_CLEAR deliveries since the hold clock was last set
    holdSeenExpired,    \* a tick has found the running hold older than the timeout
    idleSeenExpired,    \* the step's tick found the idle period elapsed
    predictionGap       \* ms since the previous prediction, when the step started one; else NoGap

threadVars == <<executor, mainThread>>

androidVars == <<currentLetter, sentence, confidence, firstLetter, predictionBuffer,
                 lastOutcome, lastTied, callsSinceEmpty, rawConfidence, threadVars>>

hookVars == <<isLoading, isModelLoaded, modelRef, error, stream, animationFrameRef,
              predictionBufferRef, lastPredictionTimeRef, lastDetectionTime,
              spaceGestureStartTime, autoSpeakTimerRef, autoClearTimerRef,
              currentGesture, inflight>>

sinkVars == <<recognizedText, gestureHistory, speechEnabled>>

obsVars == <<lastStep, tickTime, raw, delivered, spoken, toast, rawSinceGesture,
             rawAtDelivery, clearsSinceSet, holdSeenExpired, idleSeenExpired,
             predictionGap>>

webVars == <<hookVars, sinkVars, obsVars>>

vars == <<androidVars, shell, webVars>>

\* ------------------------------------------------------------------ bounds
MaxLen == 2            \* letters are appended only while the sentence is shorter

\* ------------------------------------------------------- program constants
BufferSize == 5                 \* MainActivity.kt:219  predictionBuffer.size < 5
PredictionThreshold == 60       \* MainActivity.kt:53   0.6f
MaxSuggestions == 4             \* MainActivity.kt:486  take(4)

NoChar == "null"

\* ------------------------------------------------------------- characters
Lowers == <<"a","b","c","d","e","f","g","h","i","j","k","l","m",
            "n","o","p","q","r","s","t","u","v","w","x","y","z">>
Uppers == <<"A","B","C","D","E","F","G","H","I","J","K","L","M",
            "N","O","P","Q","R","S","T","U","V","W","X","Y","Z">>

Range(s) == {s[i] : i \in 1..Len(s)}

\* Char.isLetter()
IsLetter(c) == c \in Range(Lowers) \cup Range(Uppers)

\* Char.uppercaseChar()
UppercaseChar(c) ==
    IF \E i \in 1..Len(Lowers) : Lowers[i] = c
    THEN Uppers[CHOOSE i \in 1..Len(Lowers) : Lowers[i] = c]
    ELSE c

\* Char.lowercaseChar(), as used by startsWith(ignoreCase = true)
LowercaseChar(c) ==
    IF \E i \in 1..Len(Uppers) : Uppers[i] = c
    THEN Lowers[CHOOSE i \in 1..Len(Uppers) : Uppers[i] = c]
    ELSE c

\* mutant of DropLast: the first character is removed
DropFirst(s) == IF Len(s) = 0 THEN s ELSE SubSeq(s, 2, Len(s))

\* String.dropLast(1)
DropLast(s) == IF Len(s) = 0 THEN s ELSE SubSeq(s, 1, Len(s) - 1)

\* ------------------------------------------------------ word suggestions
SuggestionDb ==
    << "hello", "hi", "how", "hey", "house", "help", "happy", "have",
       "good", "great", "go", "game", "give", "girl",
       "yes", "you", "yesterday", "yell",
       "no", "note", "now", "nice",
       "please", "project", "put", "play",
       "thanks", "thankyou", "today", "tomorrow" >>

\* it.startsWith(letter.toString(), ignoreCase = true)
StartsWithCaseSensitive(word, letter) ==
    /\ Len(word) >= 1
    /\ SubSeq(word, 1, 1) = letter

StartsWithIgnoreCase(word, letter) ==
    /\ Len(word) >= 1
    /\ LowercaseChar(SubSeq(word, 1, 1)) = LowercaseChar(letter)

RECURSIVE FilterTake(_, _, _, _)
\* db.filter { ... }.take(n), scanning db from index i
FilterTake(db, letter, i, n) ==
    IF i > Len(db) \/ n = 0 THEN <<>>
    ELSE IF StartsWithIgnoreCase(db[i], letter)
         THEN <<db[i]>> \o FilterTake(db, letter, i + 1, n - 1)
         ELSE FilterTake(db, letter, i + 1, n)

GenerateWordSuggestionsForLetter(letter) ==
    FilterTake(SuggestionDb, letter, 1, MaxSuggestions)

\* val suggestions = remember(firstLetter) { ... }
Suggestions ==
    IF firstLetter # NoChar THEN GenerateWordSuggestionsForLetter(firstLetter) ELSE <<>>

\* -------------------------------------------------------- smoothing buffer
RECURSIVE MaxByFrom(_, _, _)
\* The loop of Iterable.maxByOrNull: keep the element seen first, replace it
\* only by a strictly greater one.
MaxByFrom(buf, i, best) ==
    IF i > Len(buf) THEN best
    ELSE MaxByFrom(buf, i + 1, IF buf[best][2] < buf[i][2] THEN i ELSE best)

RECURSIVE MaxByFromLastWins(_, _, _)
MaxByFromLastWins(buf, i, best) ==
    IF i > Len(buf) THEN best
    ELSE MaxByFromLastWins(buf, i + 1, IF buf[best][2] <= buf[i][2] THEN i ELSE best)

\* mutant of MaxByOrNull: a later entry of equal confidence replaces the earlier
MaxByOrNullLastWins(buf) == IF Len(buf) = 0 THEN 0 ELSE MaxByFromLastWins(buf, 2, 1)

\* predictionBuffer.maxByOrNull { it.second }: index of the chosen entry, 0 for null
MaxByOrNull(buf) == IF Len(buf) = 0 THEN 0 ELSE MaxByFrom(buf, 2, 1)

\* the `when` of onPrediction applied to an accepted label
InterpretSentence(label, s) ==
    IF label = "DEL" /\ Len(s) > 0 THEN DropLast(s)
    ELSE IF label = "SPACE" THEN s \o " "
    ELSE IF Len(label) = 1 THEN s \o label
    ELSE s

\* mutant of InterpretFirstLetter: every letter overwrites the recorded one
InterpretFirstLetterAlways(label, s, fl) ==
    IF label = "DEL" /\ Len(s) > 0 THEN fl
    ELSE IF label = "SPACE" THEN fl
    ELSE IF Len(label) = 1
         THEN IF IsLetter(SubSeq(label, 1, 1))
              THEN UppercaseChar(SubSeq(label, 1, 1))
              ELSE fl
    ELSE fl

\* firstLetter after the `when` of onPrediction applied to an accepted label
InterpretFirstLetter(label, s, fl) ==
    IF label = "DEL" /\ Len(s) > 0 THEN fl
    ELSE IF label = "SPACE" THEN fl
    ELSE IF Len(label) = 1
         THEN IF fl = NoChar /\ IsLetter(SubSeq(label, 1, 1))
              THEN UppercaseChar(SubSeq(label, 1, 1))
              ELSE fl
    ELSE fl

Tied(buf) ==
    LET b == MaxByOrNull(buf)
    IN  Cardinality({i \in 1..Len(buf) : buf[i][2] = buf[b][2]}) > 1

\* mutant of MeetsThreshold: every winner is accepted
MeetsThresholdAlways(conf) == TRUE

\* if (it.second >= predictionThreshold)
MeetsThreshold(conf) == conf >= PredictionThreshold

\* onPrediction = { letter, conf -> ... }
OnPrediction(letter, conf) ==
    /\ shell = "android"
    /\ UNCHANGED <<shell, webVars, threadVars>>
    /\ rawConfidence' = <<conf>>
    /\ IF Len(predictionBuffer) < BufferSize
         THEN /\ predictionBuffer' = Append(predictionBuffer, <<letter, conf>>)
              /\ lastOutcome' = "buffered"
              /\ callsSinceEmpty' = callsSinceEmpty + 1
              /\ UNCHANGED <<currentLetter, sentence, confidence, firstLetter, lastTied>>
         ELSE LET b == MaxByOrNull(predictionBuffer)
                  best == predictionBuffer[b]
              IN  /\ predictionBuffer' = <<>>
                  /\ callsSinceEmpty' = 0
                  /\ lastTied' = Tied(predictionBuffer)
                  /\ IF b # 0 /\ MeetsThreshold(best[2])
                       THEN /\ Len(InterpretSentence(best[1], sentence)) > Len(sentence)
                                 => Len(sentence) < MaxLen
                            /\ currentLetter' = best[1]
                            /\ confidence' = best[2]
                            /\ sentence' = InterpretSentence(best[1], sentence)
                            /\ firstLetter' = InterpretFirstLetter(best[1], sentence, firstLetter)
                            /\ lastOutcome' = "accepted"
                       ELSE /\ lastOutcome' = "discarded"
                            /\ UNCHANGED <<currentLetter, sentence, confidence, firstLetter>>

\* mutant of PredictedChar: a label table whose second class is DEL
PredictedCharWithDelete(idx) ==
    IF idx = 1 THEN "DEL" ELSE IF idx < 26 THEN Uppers[idx + 1] ELSE "?"

\* val predictedChar = if (idx < 26) ('A' + idx).toString() else "?"
PredictedChar(idx) == IF idx < 26 THEN Uppers[idx + 1] ELSE "?"

\* The analyzer's handling of one model output whose greatest entry is
\* output[0][idx] = conf:  if (conf >= 0f) onPrediction(predictedChar, conf)
Analyzer(idx, conf) ==
    IF conf >= 0
      THEN OnPrediction(PredictedChar(idx), conf)
      ELSE /\ shell = "android"
           /\ rawConfidence' = <<conf>>
           /\ UNCHANGED <<currentLetter, sentence, confidence, firstLetter, predictionBuffer,
                          lastOutcome, lastTied, callsSinceEmpty, shell, webVars,
                          threadVars>>

\* onUseSuggestion = { chosen -> sentence = chosen }
OnUseSuggestion(chosen) ==
    /\ shell = "android"
    /\ sentence' = chosen
    /\ UNCHANGED <<currentLetter, confidence, firstLetter, predictionBuffer,
                   lastOutcome, lastTied, callsSinceEmpty, rawConfidence, shell,
                   webVars, threadVars>>

\* onClearAll = { sentence = ""; firstLetter = null }
OnClearAll ==
    /\ shell = "android"
    /\ sentence' = ""
    /\ firstLetter' = NoChar
    /\ UNCHANGED <<currentLetter, confidence, predictionBuffer,
                   lastOutcome, lastTied, callsSinceEmpty, rawConfidence, shell,
                   webVars, threadVars>>

\* ---- the same callbacks statement by statement.  onPrediction runs on the
\* ---- analyzer's executor thread (setAnalyzer(executor), MainActivity.kt:295),
\* ---- onClearAll and onUseSuggestion on the UI thread; sentence and
\* ---- firstLetter are shared and nothing orders the two threads.
ExecutorIdle == [pc |-> "idle", label |-> "", read |-> ""]

\* onPrediction on a full window, up to the read of `sentence += it.first`:
\*   maxByOrNull, clear(), currentLetter = ..., confidence = ..., and the
\*   read of sentence the `when` branch starts from
OnPredictionDecide(letter, conf) ==
    /\ shell = "android"
    /\ executor.pc = "idle"
    /\ Len(predictionBuffer) = BufferSize
    /\ rawConfidence' = <<conf>>
    /\ LET b == MaxByOrNull(predictionBuffer)
           best == predictionBuffer[b]
       IN  /\ predictionBuffer' = <<>>
           /\ callsSinceEmpty' = 0
           /\ lastTied' = Tied(predictionBuffer)
           /\ IF b # 0 /\ MeetsThreshold(best[2])
                THEN /\ Len(InterpretSentence(best[1], sentence)) > Len(sentence)
                          => Len(sentence) < MaxLen
                     /\ currentLetter' = best[1]
                     /\ confidence' = best[2]
                     /\ lastOutcome' = "accepted"
                     /\ executor' = [pc |-> "sentence", label |-> best[1], read |-> sentence]
                ELSE /\ lastOutcome' = "discarded"
                     /\ UNCHANGED <<currentLetter, confidence, executor>>
    /\ UNCHANGED <<sentence, firstLetter, mainThread, shell, webVars>>

\* the write of the `when` branch (sentence = sentence.dropLast(1),
\* sentence += " ", sentence += it.first) and, for a label of one character,
\* the test `firstLetter == null && it.first[0].isLetter()`
OnPredictionWriteSentence ==
    /\ shell = "android"
    /\ executor.pc = "sentence"
    /\ sentence' = InterpretSentence(executor.label, executor.read)
    /\ executor' = IF /\ executor.label # "DEL" /\ executor.label # "SPACE"
                      /\ Len(executor.label) = 1
                      /\ firstLetter = NoChar
                      /\ IsLetter(SubSeq(executor.label, 1, 1))
                   THEN [executor EXCEPT !.pc = "firstLetter", !.read = ""]
                   ELSE ExecutorIdle
    /\ UNCHANGED <<currentLetter, confidence, firstLetter, predictionBuffer, lastOutcome,
                   lastTied, callsSinceEmpty, rawConfidence, mainThread, shell, webVars>>

\* firstLetter = it.first[0].uppercaseChar()
OnPredictionWriteFirstLetter ==
    /\ shell = "android"
    /\ executor.pc = "firstLetter"
    /\ firstLetter' = UppercaseChar(SubSeq(executor.label, 1, 1))
    /\ executor' = ExecutorIdle
    /\ UNCHANGED <<currentLetter, sentence, confidence, predictionBuffer, lastOutcome,
                   lastTied, callsSinceEmpty, rawConfidence, mainThread, shell, webVars>>

\* onClearAll, first statement:  sentence = ""
OnClearAllSentence ==
    /\ shell = "android"
    /\ mainThread = "idle"
    /\ sentence' = ""
    /\ mainThread' = "clearing"
    /\ UNCHANGED <<currentLetter, confidence, firstLetter, predictionBuffer, lastOutcome,
                   lastTied, callsSinceEmpty, rawConfidence, executor, shell, webVars>>

\* onClearAll, second statement:  firstLetter = null
OnClearAllFirstLetter ==
    /\ shell = "android"
    /\ mainThread = "clearing"
    /\ firstLetter' = NoChar
    /\ mainThread' = "idle"
    /\ UNCHANGED <<currentLetter, sentence, confidence, predictionBuffer, lastOutcome,
                   lastTied, callsSinceEmpty, rawConfidence, executor, shell, webVars>>

\* String.isNotBlank()
IsNotBlank(s) == \E i \in 1..Len(s) : SubSeq(s, i, i) # " "

\* onSpeak = { text -> if (text.isNotBlank()) tts.speak(text, ...) }
\*   the step reports what it handed to tts.speak and what it showed
OnSpeak(text) ==
    /\ shell = "android"
    /\ lastStep' = "onSpeak"
    /\ spoken' = IF IsNotBlank(text) THEN text ELSE "none"
    /\ toast' = <<>>
    /\ UNCHANGED <<androidVars, shell, hookVars, sinkVars, tickTime, raw, delivered,
                   rawSinceGesture, rawAtDelivery, clearsSinceSet, holdSeenExpired,
                   idleSeenExpired, predictionGap>>

\* ======================================================================
\* Web shell
\* ======================================================================

\* ------------------------------------------------------- program constants
WebPredictionThreshold == 70    \* predictionThreshold = 0.7
IdleTimeoutMs == 6000           \* currentTime - lastDetectionTime > 6000
HoldTimeoutMs == 5000           \* currentTime - spaceGestureStartTime > 5000
TimerDelayMs == 100             \* setTimeout(..., 100)
DemoIntervalMs == 2000          \* currentTime - lastPredictionTimeRef.current > 2000
RealIntervalMs == 500           \* currentTime - lastPredictionTimeRef.current > 500
HistoryMax == 10                \* [newGestureEntry, ...prev.slice(0, 9)]
ThrottleMs == 200               \* currentTime - lastPredictionTimeRef.current < 200
MediaPipeBufferSize == 5        \* bufferSize = 5
ConsensusCount == 3             \* Math.ceil(bufferSize * 0.6)

CurrentTime == 0                \* Date.now(), the origin of the relative timestamps
Null == 1                       \* null of a nullable timestamp (no timestamp is > 0)
NoTimer == -1                   \* no pending timeout
NoTick == 1                     \* the step did not call checkAutoActions
NoGap == -1                     \* the step started no prediction

\* ------------------------------------------------------------------ bounds
AwaitMaxMs == 100      \* prediction.data() resolves within this many ms
MediaPipeAwaitMaxMs == 300   \* the same for the MediaPipe-based hook

\* time between two animation frames, time an await takes, time the user waits
FrameGaps == {50, 150}
AwaitDelays == {0, 50}
WaitGaps == {1000}

\* const gestures = ['A', 'B', 'C', 'G', 'L', 'P', 'X', 'Y', ' ']
Gestures == <<"A", "B", "C", "G", "L", "P", "X", "Y", " ">>
\* the draws of Math.random() explored: gestures[0] and gestures[8]
DemoChoices == {1, 9}
\* confidence = 0.8 + Math.random() * 0.2
DemoConfidences == {80, 99}

\* mutant of GestureMapping: index 1 is mapped to the space gesture
GestureMappingWithSpace(i) ==
    IF i \in 0..7 THEN <<"S", " ", "C", "G", "L", "P", "X", "Y">>[i + 1] ELSE "UNKNOWN"

\* GESTURE_MAPPING[maxIndex] || 'UNKNOWN'
GestureMapping(i) ==
    IF i \in 0..7 THEN <<"S", "B", "C", "G", "L", "P", "X", "Y">>[i + 1] ELSE "UNKNOWN"

\* results of the model explored: <<maxIndex, confidence>>, or <<>> for a throw
RealOutcomes == { <<1, 90>>, <<1, 70>>, <<>> }

\* ---------------------------------------------------------- relative time
IdleFloor == CurrentTime - (IdleTimeoutMs + AwaitMaxMs + 1)
HoldFloor == CurrentTime - (HoldTimeoutMs + AwaitMaxMs + 1)
PredFloor == CurrentTime - (DemoIntervalMs + 1)

\* a timestamp t after d more ms have passed
Older(t, d, floor) ==
    IF t = Null THEN Null ELSE IF t - d < floor THEN floor ELSE t - d

TimerAfter(t, d) == IF t = NoTimer THEN NoTimer ELSE t - d

\* d ms can pass before the next callback: no pending timer is due earlier and
\* an awaited prediction has resolved by then
CanElapse(d) ==
    /\ autoSpeakTimerRef # NoTimer => d <= autoSpeakTimerRef
    /\ autoClearTimerRef # NoTimer => d <= autoClearTimerRef
    /\ inflight # <<>> => d - inflight[1] <= AwaitMaxMs

\* ------------------------------------------------------- component (sink)
RECURSIVE TrimStart(_)
TrimStart(s) == IF Len(s) > 0 /\ SubSeq(s, 1, 1) = " " THEN TrimStart(SubSeq(s, 2, Len(s))) ELSE s
RECURSIVE TrimEnd(_)
TrimEnd(s) == IF Len(s) > 0 /\ SubSeq(s, Len(s), Len(s)) = " " THEN TrimEnd(DropLast(s)) ELSE s
\* String.prototype.trim()
Trim(s) == TrimEnd(TrimStart(s))

\* the text handleGestureDetected leaves for a gesture that is no auto action
GestureText(gesture, prev) ==
    IF gesture = " " THEN prev \o " "
    ELSE IF gesture = "Backspace" THEN DropLast(prev)       \* prev.slice(0, -1)
    ELSE IF gesture = "next" THEN prev
    ELSE IF gesture # "" /\ gesture # "UNCERTAIN" /\ gesture # "UNKNOWN" THEN prev \o gesture
    ELSE prev

\* the gesture can be handled within the bound on the text
TextFits(gesture) ==
    gesture \notin {"AUTO_SPEAK", "AUTO_CLEAR"}
        => Len(GestureText(gesture, recognizedText)) <= MaxLen

\* const speakFullText = () => { ... }
SpeakFullText(after) ==
    IF Trim(recognizedText) # ""
    THEN /\ spoken' = recognizedText
         /\ toast' = <<"Speaking Text">> \o after
    ELSE /\ spoken' = "none"
         /\ toast' = <<"No Text to Speak">> \o after

\* const clearText = () => { ... }
ClearText(after) ==
    /\ recognizedText' = ""
    /\ gestureHistory' = 0
    /\ toast' = <<"Text Cleared">> \o after

\* mutant of HandleGestureDetected: AUTO_CLEAR only shows its toast
HandleGestureDetectedNoClear(gesture) ==
    IF gesture = "AUTO_SPEAK"
    THEN /\ SpeakFullText(<<"Auto Speech">>)
         /\ UNCHANGED <<recognizedText, gestureHistory>>
    ELSE IF gesture = "AUTO_CLEAR"
    THEN /\ toast' = <<"Text Cleared", "Auto Clear">>
         /\ spoken' = "none"
         /\ UNCHANGED <<recognizedText, gestureHistory>>
    ELSE /\ gestureHistory' = IF gestureHistory < HistoryMax THEN gestureHistory + 1
                                                            ELSE HistoryMax
         /\ recognizedText' = GestureText(gesture, recognizedText)
         /\ toast' = IF gesture = "next" THEN <<"Command Detected">> ELSE <<>>
         /\ spoken' = IF speechEnabled /\ gesture # "" /\ Len(gesture) = 1
                      THEN gesture ELSE "none"

\* const handleGestureDetected = (result) => { ... }
HandleGestureDetected(gesture) ==
    IF gesture = "AUTO_SPEAK"
    THEN /\ SpeakFullText(<<"Auto Speech">>)
         /\ UNCHANGED <<recognizedText, gestureHistory>>
    ELSE IF gesture = "AUTO_CLEAR"
    THEN /\ ClearText(<<"Auto Clear">>)
         /\ spoken' = "none"
    ELSE /\ gestureHistory' = IF gestureHistory < HistoryMax THEN gestureHistory + 1
                                                            ELSE HistoryMax
         /\ recognizedText' = GestureText(gesture, recognizedText)
         /\ toast' = IF gesture = "next" THEN <<"Command Detected">> ELSE <<>>
         /\ spoken' = IF speechEnabled /\ gesture # "" /\ Len(gesture) = 1
                      THEN gesture ELSE "none"

\* onGestureDetected?.(result)
Deliver(gesture) ==
    /\ delivered' = gesture
    /\ HandleGestureDetected(gesture)

NoDelivery ==
    /\ delivered' = "none"
    /\ spoken' = "none"
    /\ toast' = <<>>
    /\ UNCHANGED <<recognizedText, gestureHistory>>

\* ------------------------------------------------------------ observation
IsGesture(g) == g \notin {"none", "AUTO_SPEAK", "AUTO_CLEAR"}

\* r: the raw prediction of the step (<<>> for none); g: the gesture delivered
\* gap: ms since the previous prediction if the step started one, else NoGap
ObservePredictionAt(r, g, gap) ==
    LET n == IF r = <<>> THEN rawSinceGesture
             ELSE IF rawSinceGesture < BufferSize THEN rawSinceGesture + 1 ELSE BufferSize
    IN  /\ raw' = r
        /\ rawAtDelivery' = IF IsGesture(g) THEN n ELSE 0
        /\ rawSinceGesture' = IF IsGesture(g) THEN 0 ELSE n
        /\ predictionGap' = gap

ObservePrediction(r, g) == ObservePredictionAt(r, g, NoGap)

\* old, new: the hold clock before and after the step; sawExpired: the step's
\* tick found the hold older than the timeout; cleared: AUTO_CLEAR was delivered
ObserveHold(old, new, sawExpired, cleared) ==
    /\ clearsSinceSet' = IF old = Null /\ new # Null THEN 0
                         ELSE IF cleared /\ clearsSinceSet < 2 THEN clearsSinceSet + 1
                         ELSE clearsSinceSet
    /\ holdSeenExpired' = IF new = Null THEN FALSE ELSE (holdSeenExpired \/ sawExpired)

\* the step called checkAutoActions(currentTime) while lastDetectionTime read ldt
ObserveTick(currentTime, ldt) ==
    /\ tickTime' = currentTime
    /\ idleSeenExpired' = (currentTime - ldt > IdleTimeoutMs)

NoTickObserved ==
    /\ tickTime' = NoTick
    /\ idleSeenExpired' = FALSE

\* ------------------------------------------------------------------- hook
\* mutant of PredictionDue: a prediction exactly one interval after the previous
PredictionDueInclusive(currentTime, lpt, interval) == currentTime - lpt >= interval

\* if (currentTime - lastPredictionTimeRef.current > 2000)   (> 500 with the model)
PredictionDue(currentTime, lpt, interval) == currentTime - lpt > interval

IdleExpired(currentTime, ldt) == currentTime - ldt > IdleTimeoutMs

HoldExpired(currentTime, sgst) == sgst # Null /\ currentTime - sgst > HoldTimeoutMs

\* mutant of CheckAutoActions: level-triggered, the idle period is not restarted
CheckAutoActionsLevel(currentTime, ldt, sgst, pending, spk, clr) ==
    /\ IF currentTime - ldt > IdleTimeoutMs
         THEN /\ autoSpeakTimerRef' = TimerDelayMs
              /\ lastDetectionTime' = pending
         ELSE /\ autoSpeakTimerRef' = spk
              /\ lastDetectionTime' = pending
    /\ IF sgst # Null /\ currentTime - sgst > HoldTimeoutMs
         THEN autoClearTimerRef' = TimerDelayMs
         ELSE autoClearTimerRef' = clr

\* const checkAutoActions = useCallback((currentTime) => { ... })
\*   ldt, sgst: lastDetectionTime and spaceGestureStartTime as the callback reads them
\*   pending:   the value lastDetectionTime takes if this call does not set it
\*   spk, clr:  the two timers as they stand when the call is made
CheckAutoActions(currentTime, ldt, sgst, pending, spk, clr) ==
    /\ IF IdleExpired(currentTime, ldt)
         THEN /\ autoSpeakTimerRef' = TimerDelayMs      \* clearTimeout, setTimeout
              /\ lastDetectionTime' = currentTime
         ELSE /\ autoSpeakTimerRef' = spk
              /\ lastDetectionTime' = pending
    /\ IF HoldExpired(currentTime, sgst)
         THEN autoClearTimerRef' = TimerDelayMs         \* clearTimeout, setTimeout
         ELSE autoClearTimerRef' = clr

\* mutant of SpaceTiming: every space gesture restarts the hold clock
SpaceTimingRestarts(gesture, currentTime, sgst) ==
    IF gesture = " " THEN currentTime ELSE Null

\* the hold clock after a gesture: the "Handle space gesture timing" block
SpaceTiming(gesture, currentTime, sgst) ==
    IF gesture = " "
    THEN IF sgst = Null THEN currentTime ELSE sgst
    ELSE Null

\* mutant of LoadModel: a load that throws is reported as an error
LoadModelReportsFailure(outcome) ==
    /\ shell = "web"
    /\ isLoading
    /\ error' = IF outcome = "throws" THEN "load" ELSE "null"
    /\ isLoading' = FALSE
    /\ isModelLoaded' = (outcome = "loaded")
    /\ modelRef' = (outcome = "loaded")
    /\ lastStep' = "loadModel"
    /\ NoTickObserved
    /\ NoDelivery
    /\ ObservePrediction(<<>>, "none")
    /\ UNCHANGED <<stream, animationFrameRef, predictionBufferRef, lastPredictionTimeRef,
                   lastDetectionTime, spaceGestureStartTime, autoSpeakTimerRef,
                   autoClearTimerRef, currentGesture, inflight, speechEnabled,
                   clearsSinceSet, holdSeenExpired,
                   shell, androidVars>>

\* loadModel, with its outcome: "missing" | "throws" | "loaded"
LoadModel(outcome) ==
    /\ shell = "web"
    /\ isLoading
    /\ error' = "null"
    /\ isLoading' = FALSE
    /\ isModelLoaded' = (outcome = "loaded")
    /\ modelRef' = (outcome = "loaded")
    /\ lastStep' = "loadModel"
    /\ NoTickObserved
    /\ NoDelivery
    /\ ObservePrediction(<<>>, "none")
    /\ UNCHANGED <<stream, animationFrameRef, predictionBufferRef, lastPredictionTimeRef,
                   lastDetectionTime, spaceGestureStartTime, autoSpeakTimerRef,
                   autoClearTimerRef, currentGesture, inflight, speechEnabled,
                   clearsSinceSet, holdSeenExpired,
                   shell, androidVars>>

\* startRecognition up to the first frame being due; ok: getUserMedia resolved
StartRecognition(ok) ==
    /\ shell = "web"
    /\ ~isLoading /\ ~stream /\ inflight = <<>> /\ animationFrameRef = "none"
    /\ IF ok
         THEN /\ error' = "null"
              /\ stream' = TRUE
              /\ animationFrameRef' = IF isModelLoaded /\ modelRef THEN "real" ELSE "simulate"
         ELSE /\ error' = "camera"
              /\ UNCHANGED <<stream, animationFrameRef>>
    /\ lastStep' = "startRecognition"
    /\ NoTickObserved
    /\ NoDelivery
    /\ ObservePrediction(<<>>, "none")
    /\ UNCHANGED <<isLoading, isModelLoaded, modelRef, predictionBufferRef,
                   lastPredictionTimeRef, lastDetectionTime, spaceGestureStartTime,
                   autoSpeakTimerRef, autoClearTimerRef, currentGesture, inflight,
                   speechEnabled, clearsSinceSet, holdSeenExpired,
                   shell, androidVars>>

\* const stopRecognition = useCallback(() => { ... })
StopRecognition ==
    /\ shell = "web"
    /\ stream
    /\ animationFrameRef' = "none"
    /\ autoSpeakTimerRef' = NoTimer
    /\ autoClearTimerRef' = NoTimer
    /\ stream' = FALSE
    /\ predictionBufferRef' = <<>>
    /\ currentGesture' = "null"
    /\ spaceGestureStartTime' = Null
    /\ error' = "null"
    /\ lastStep' = "stopRecognition"
    /\ NoTickObserved
    /\ NoDelivery
    /\ ObservePrediction(<<>>, "none")
    /\ clearsSinceSet' = clearsSinceSet
    /\ holdSeenExpired' = FALSE
    /\ UNCHANGED <<isLoading, isModelLoaded, modelRef, lastPredictionTimeRef,
                   lastDetectionTime, inflight, speechEnabled, shell, androidVars>>

\* d ms pass while no frame is scheduled
Wait(d) ==
    /\ shell = "web"
    /\ animationFrameRef = "none" /\ inflight = <<>>
    /\ CanElapse(d)
    /\ lastPredictionTimeRef' = Older(lastPredictionTimeRef, d, PredFloor)
    /\ lastDetectionTime' = Older(lastDetectionTime, d, IdleFloor)
    /\ spaceGestureStartTime' = Older(spaceGestureStartTime, d, HoldFloor)
    /\ autoSpeakTimerRef' = TimerAfter(autoSpeakTimerRef, d)
    /\ autoClearTimerRef' = TimerAfter(autoClearTimerRef, d)
    /\ lastStep' = "wait"
    /\ NoTickObserved
    /\ NoDelivery
    /\ ObservePrediction(<<>>, "none")
    /\ UNCHANGED <<isLoading, isModelLoaded, modelRef, error, stream, animationFrameRef,
                   predictionBufferRef, currentGesture, inflight, speechEnabled,
                   clearsSinceSet, holdSeenExpired, shell, androidVars>>

\* const simulateGestureDetection = useCallback(() => { ... }), one animation frame
\*   d: ms since the previous callback; gi, conf: the draws of Math.random()
SimulateGestureDetection(d, gi, conf) ==
    /\ shell = "web"
    /\ animationFrameRef = "simulate"
    /\ CanElapse(d)
    /\ LET lpt == Older(lastPredictionTimeRef, d, PredFloor)
           ldt == Older(lastDetectionTime, d, IdleFloor)
           sgst == Older(spaceGestureStartTime, d, HoldFloor)
           spk == TimerAfter(autoSpeakTimerRef, d)
           clr == TimerAfter(autoClearTimerRef, d)
           predicts == PredictionDue(CurrentTime, lpt, DemoIntervalMs)
           gesture == Gestures[gi]
       IN  IF ~stream
           THEN \* if (... || !stream) return;
                /\ animationFrameRef' = "none"
                /\ lastPredictionTimeRef' = lpt
                /\ lastDetectionTime' = ldt
                /\ spaceGestureStartTime' = sgst
                /\ autoSpeakTimerRef' = spk
                /\ autoClearTimerRef' = clr
                /\ NoTickObserved
                /\ NoDelivery
                /\ ObservePrediction(<<>>, "none")
                /\ ObserveHold(sgst, sgst, FALSE, FALSE)
                /\ UNCHANGED currentGesture
           ELSE /\ animationFrameRef' = "simulate"
                /\ IF predicts
                     THEN /\ TextFits(gesture)
                          /\ lastPredictionTimeRef' = CurrentTime
                          /\ currentGesture' = gesture
                          /\ spaceGestureStartTime' = SpaceTiming(gesture, CurrentTime, sgst)
                          /\ Deliver(gesture)
                          /\ ObservePredictionAt(<<gesture, conf>>, gesture, CurrentTime - lpt)
                          /\ ObserveHold(sgst, SpaceTiming(gesture, CurrentTime, sgst),
                                         HoldExpired(CurrentTime, sgst), FALSE)
                     ELSE /\ lastPredictionTimeRef' = lpt
                          /\ spaceGestureStartTime' = sgst
                          /\ NoDelivery
                          /\ ObservePrediction(<<>>, "none")
                          /\ ObserveHold(sgst, sgst, HoldExpired(CurrentTime, sgst), FALSE)
                          /\ UNCHANGED currentGesture
                /\ CheckAutoActions(CurrentTime, ldt, sgst,
                                    IF predicts THEN CurrentTime ELSE ldt, spk, clr)
                /\ ObserveTick(CurrentTime, ldt)
    /\ lastStep' = "simulateGestureDetection"
    /\ UNCHANGED <<isLoading, isModelLoaded, modelRef, error, stream, predictionBufferRef,
                   inflight, speechEnabled, shell, androidVars>>

\* realGestureDetection from its start to `await prediction.data()`, or to its end
\* when no prediction is due
RealGestureDetectionBegin(d) ==
    /\ shell = "web"
    /\ animationFrameRef = "real"
    /\ inflight = <<>>
    /\ CanElapse(d)
    /\ LET lpt == Older(lastPredictionTimeRef, d, PredFloor)
           ldt == Older(lastDetectionTime, d, IdleFloor)
           sgst == Older(spaceGestureStartTime, d, HoldFloor)
           spk == TimerAfter(autoSpeakTimerRef, d)
           clr == TimerAfter(autoClearTimerRef, d)
       IN  /\ spaceGestureStartTime' = sgst
           /\ IF ~stream \/ ~modelRef
                THEN \* if (... || !modelRef.current || !stream) return;
                     /\ animationFrameRef' = "none"
                     /\ lastPredictionTimeRef' = lpt
                     /\ lastDetectionTime' = ldt
                     /\ autoSpeakTimerRef' = spk
                     /\ autoClearTimerRef' = clr
                     /\ NoTickObserved
                     /\ ObserveHold(sgst, sgst, FALSE, FALSE)
                     /\ ObservePrediction(<<>>, "none")
                     /\ UNCHANGED inflight
                ELSE IF PredictionDue(CurrentTime, lpt, RealIntervalMs)
                THEN \* model.predict(tensor); await prediction.data()
                     /\ animationFrameRef' = "none"
                     /\ lastPredictionTimeRef' = CurrentTime
                     /\ inflight' = <<CurrentTime>>
                     /\ ObservePredictionAt(<<>>, "none", CurrentTime - lpt)
                     /\ lastDetectionTime' = ldt
                     /\ autoSpeakTimerRef' = spk
                     /\ autoClearTimerRef' = clr
                     /\ NoTickObserved
                     /\ ObserveHold(sgst, sgst, FALSE, FALSE)
                ELSE /\ animationFrameRef' = "real"
                     /\ lastPredictionTimeRef' = lpt
                     /\ CheckAutoActions(CurrentTime, ldt, sgst, ldt, spk, clr)
                     /\ ObserveTick(CurrentTime, ldt)
                     /\ ObserveHold(sgst, sgst, HoldExpired(CurrentTime, sgst), FALSE)
                     /\ ObservePrediction(<<>>, "none")
                     /\ UNCHANGED inflight
    /\ lastStep' = "realGestureDetection"
    /\ NoDelivery
    /\ UNCHANGED <<isLoading, isModelLoaded, modelRef, error, stream, predictionBufferRef,
                   currentGesture, speechEnabled, shell, androidVars>>

\* mutant of Accepted: every prediction counts, whatever its confidence
AcceptedAny(outcome) == outcome # <<>>

\* if (confidence > predictionThreshold), for a prediction that did not throw
Accepted(outcome) == outcome # <<>> /\ outcome[2] > WebPredictionThreshold

\* realGestureDetection from the result of `await prediction.data()` to its end
\*   d: ms the await took since the previous callback; outcome: <<maxIndex, confidence>>
\*   or <<>> when predict/data threw
RealGestureDetectionResume(d, outcome) ==
    /\ shell = "web"
    /\ inflight # <<>>
    /\ CanElapse(d)
    /\ LET currentTime == inflight[1] - d
           lpt == Older(lastPredictionTimeRef, d, PredFloor)
           ldt == Older(lastDetectionTime, d, IdleFloor)
           sgst == Older(spaceGestureStartTime, d, HoldFloor)
           spk == TimerAfter(autoSpeakTimerRef, d)
           clr == TimerAfter(autoClearTimerRef, d)
           accepted == Accepted(outcome)
           gesture == IF outcome = <<>> THEN "none" ELSE GestureMapping(outcome[1])
       IN  /\ lastPredictionTimeRef' = lpt
           /\ IF accepted
                THEN /\ TextFits(gesture)
                     /\ currentGesture' = gesture
                     /\ spaceGestureStartTime' = SpaceTiming(gesture, currentTime, sgst)
                     /\ Deliver(gesture)
                     /\ ObservePrediction(<<gesture, outcome[2]>>, gesture)
                     /\ ObserveHold(sgst, SpaceTiming(gesture, currentTime, sgst),
                                    HoldExpired(currentTime, sgst), FALSE)
                ELSE /\ spaceGestureStartTime' = sgst
                     /\ NoDelivery
                     /\ ObservePrediction(IF outcome = <<>> THEN <<>>
                                          ELSE <<gesture, outcome[2]>>, "none")
                     /\ ObserveHold(sgst, sgst, HoldExpired(currentTime, sgst), FALSE)
                     /\ UNCHANGED currentGesture
           /\ CheckAutoActions(currentTime, ldt, sgst,
                               IF accepted THEN currentTime ELSE ldt, spk, clr)
           /\ ObserveTick(currentTime, ldt)
    /\ inflight' = <<>>
    /\ animationFrameRef' = "real"
    /\ lastStep' = "realGestureDetection"
    /\ UNCHANGED <<isLoading, isModelLoaded, modelRef, error, stream, predictionBufferRef,
                   speechEnabled, shell, androidVars>>

\* the callback of autoSpeakTimerRef's timeout
AutoSpeakTimeout ==
    /\ shell = "web"
    /\ autoSpeakTimerRef # NoTimer
    /\ CanElapse(autoSpeakTimerRef)
    /\ LET d == autoSpeakTimerRef
       IN  /\ lastPredictionTimeRef' = Older(lastPredictionTimeRef, d, PredFloor)
           /\ lastDetectionTime' = Older(lastDetectionTime, d, IdleFloor)
           /\ spaceGestureStartTime' = Older(spaceGestureStartTime, d, HoldFloor)
           /\ autoClearTimerRef' = TimerAfter(autoClearTimerRef, d)
           /\ inflight' = IF inflight = <<>> THEN <<>> ELSE <<inflight[1] - d>>
    /\ autoSpeakTimerRef' = NoTimer
    /\ Deliver("AUTO_SPEAK")
    /\ lastStep' = "autoSpeakTimeout"
    /\ NoTickObserved
    /\ ObservePrediction(<<>>, "AUTO_SPEAK")
    /\ UNCHANGED <<isLoading, isModelLoaded, modelRef, error, stream, animationFrameRef,
                   predictionBufferRef, currentGesture, speechEnabled,
                   clearsSinceSet, holdSeenExpired, shell, androidVars>>

\* mutant of AutoClearTimeout: the callback leaves the hold clock running
AutoClearTimeoutKeepsHold ==
    /\ shell = "web"
    /\ autoClearTimerRef # NoTimer
    /\ CanElapse(autoClearTimerRef)
    /\ LET d == autoClearTimerRef
       IN  /\ lastPredictionTimeRef' = Older(lastPredictionTimeRef, d, PredFloor)
           /\ lastDetectionTime' = Older(lastDetectionTime, d, IdleFloor)
           /\ autoSpeakTimerRef' = TimerAfter(autoSpeakTimerRef, d)
           /\ inflight' = IF inflight = <<>> THEN <<>> ELSE <<inflight[1] - d>>
           /\ ObserveHold(Older(spaceGestureStartTime, d, HoldFloor),
                          Older(spaceGestureStartTime, d, HoldFloor), FALSE, TRUE)
    /\ autoClearTimerRef' = NoTimer
    /\ Deliver("AUTO_CLEAR")
    /\ spaceGestureStartTime' = Older(spaceGestureStartTime, autoClearTimerRef, HoldFloor)
    /\ lastStep' = "autoClearTimeout"
    /\ NoTickObserved
    /\ ObservePrediction(<<>>, "AUTO_CLEAR")
    /\ UNCHANGED <<isLoading, isModelLoaded, modelRef, error, stream, animationFrameRef,
                   predictionBufferRef, currentGesture, speechEnabled, shell, androidVars>>

\* the callback of autoClearTimerRef's timeout
AutoClearTimeout ==
    /\ shell = "web"
    /\ autoClearTimerRef # NoTimer
    /\ CanElapse(autoClearTimerRef)
    /\ LET d == autoClearTimerRef
       IN  /\ lastPredictionTimeRef' = Older(lastPredictionTimeRef, d, PredFloor)
           /\ lastDetectionTime' = Older(lastDetectionTime, d, IdleFloor)
           /\ autoSpeakTimerRef' = TimerAfter(autoSpeakTimerRef, d)
           /\ inflight' = IF inflight = <<>> THEN <<>> ELSE <<inflight[1] - d>>
           /\ ObserveHold(Older(spaceGestureStartTime, d, HoldFloor), Null, FALSE, TRUE)
    /\ autoClearTimerRef' = NoTimer
    /\ Deliver("AUTO_CLEAR")
    /\ spaceGestureStartTime' = Null
    /\ lastStep' = "autoClearTimeout"
    /\ NoTickObserved
    /\ ObservePrediction(<<>>, "AUTO_CLEAR")
    /\ UNCHANGED <<isLoading, isModelLoaded, modelRef, error, stream, animationFrameRef,
                   predictionBufferRef, currentGesture, speechEnabled, shell, androidVars>>

\* ------------------------------------------------------------ user, events
UserStep(name) ==
    /\ shell = "web"
    /\ lastStep' = name
    /\ NoTickObserved
    /\ ObservePrediction(<<>>, "none")
    /\ UNCHANGED <<hookVars, clearsSinceSet, holdSeenExpired, shell, androidVars>>

\* ------------------------------------------- hook, MediaPipe-based variant
\* The second useHandGestureRecognition of the file: MediaPipe Hands calls
\* onResults for each camera frame, and onResults calls makePrediction
\* without awaiting it.  inflight holds, in the order they started, the start
\* times of the makePrediction calls that are suspended at an await.
MediaPipeFloor == CurrentTime - ThrottleMs

\* classifyGesture, without its landmark-based refinements (they apply to the
\* labels of indices 0 and 1 only)
ClassifyGesture(prediction, conf) ==
    IF conf < WebPredictionThreshold THEN "UNCERTAIN" ELSE GestureMapping(prediction)

CountIn(buf, g) == Cardinality({ i \in 1..Len(buf) : buf[i] = g })

\* mutant of GetConsistentPrediction: no 60% requirement, the most common
\* label of a full buffer is returned whatever its count
GetConsistentPredictionPlurality(buf) ==
    IF Len(buf) < MediaPipeBufferSize THEN "null"
    ELSE LET top == CHOOSE i \in 1..Len(buf) :
                        /\ \A j \in 1..Len(buf) : CountIn(buf, buf[j]) <= CountIn(buf, buf[i])
                        /\ \A j \in 1..(i - 1) : CountIn(buf, buf[j]) < CountIn(buf, buf[i])
         IN  buf[top]

\* getConsistentPrediction: the most common label of a full buffer (the one
\* met first among equally common ones) when it fills 60% of it, else null
GetConsistentPrediction(buf) ==
    IF Len(buf) < MediaPipeBufferSize THEN "null"
    ELSE LET top == CHOOSE i \in 1..Len(buf) :
                        /\ \A j \in 1..Len(buf) : CountIn(buf, buf[j]) <= CountIn(buf, buf[i])
                        /\ \A j \in 1..(i - 1) : CountIn(buf, buf[j]) < CountIn(buf, buf[i])
         IN  IF CountIn(buf, buf[top]) >= ConsensusCount THEN buf[top] ELSE "null"

\* mutant of PushToBuffer: the oldest label is never dropped
PushToBufferNoShift(buf, gesture) == Append(buf, gesture)

\* predictionBufferRef.current.push(gesture);
\* if (predictionBufferRef.current.length > bufferSize) predictionBufferRef.current.shift()
PushToBuffer(buf, gesture) ==
    LET pushed == Append(buf, gesture)
    IN  IF Len(pushed) > MediaPipeBufferSize THEN Tail(pushed) ELSE pushed

\* a step of the MediaPipe-based hook that checks no auto action
MediaPipeStep(name) ==
    /\ shell = "web"
    /\ lastStep' = name
    /\ NoTickObserved
    /\ UNCHANGED <<animationFrameRef, lastDetectionTime, spaceGestureStartTime,
                   autoSpeakTimerRef, autoClearTimerRef, speechEnabled, clearsSinceSet,
                   holdSeenExpired, shell, androidVars>>

\* loadModel of the MediaPipe-based hook
MediaPipeLoadModel(ok) ==
    /\ MediaPipeStep("loadModel")
    /\ isLoading
    /\ isLoading' = FALSE
    /\ isModelLoaded' = ok
    /\ modelRef' = ok
    /\ error' = IF ok THEN "null" ELSE "load"
    /\ NoDelivery
    /\ ObservePrediction(<<>>, "none")
    /\ UNCHANGED <<stream, predictionBufferRef, lastPredictionTimeRef, currentGesture,
                   inflight>>

\* startRecognition of the MediaPipe-based hook: getUserMedia, camera.start()
MediaPipeStartRecognition(ok) ==
    /\ MediaPipeStep("startRecognition")
    /\ ~isLoading /\ ~stream
    /\ stream' = ok
    /\ error' = IF ok THEN "null" ELSE "camera"
    /\ NoDelivery
    /\ ObservePrediction(<<>>, "none")
    /\ UNCHANGED <<isLoading, isModelLoaded, modelRef, predictionBufferRef,
                   lastPredictionTimeRef, currentGesture, inflight>>

\* stopRecognition of the MediaPipe-based hook
MediaPipeStopRecognition ==
    /\ MediaPipeStep("stopRecognition")
    /\ stream
    /\ stream' = FALSE
    /\ predictionBufferRef' = <<>>
    /\ currentGesture' = "null"
    /\ NoDelivery
    /\ ObservePrediction(<<>>, "none")
    /\ UNCHANGED <<isLoading, isModelLoaded, modelRef, error, lastPredictionTimeRef,
                   inflight>>

\* onResults with a hand in the frame, d ms after the previous frame:
\* makePrediction up to its first await
MakePredictionBegin(d) ==
    /\ MediaPipeStep("makePrediction")
    /\ stream /\ modelRef
    /\ \A i \in 1..Len(inflight) : d - inflight[i] <= MediaPipeAwaitMaxMs
    /\ LET lpt == Older(lastPredictionTimeRef, d, MediaPipeFloor)
           waiting == [i \in 1..Len(inflight) |-> inflight[i] - d]
       IN  IF CurrentTime - lpt < ThrottleMs
             THEN /\ lastPredictionTimeRef' = lpt
                  /\ inflight' = waiting
             ELSE /\ lastPredictionTimeRef' = CurrentTime
                  /\ inflight' = Append(waiting, CurrentTime)
    /\ NoDelivery
    /\ ObservePrediction(<<>>, "none")
    /\ UNCHANGED <<isLoading, isModelLoaded, modelRef, error, stream, predictionBufferRef,
                   currentGesture>>

\* makePrediction from the result of `await prediction.data()` to its end, for
\* the i-th suspended call; outcome: <<maxIndex, confidence>>, or <<>> when
\* predict/data threw
MakePredictionResume(i, outcome) ==
    /\ MediaPipeStep("makePrediction")
    /\ i \in 1..Len(inflight)
    /\ inflight' = SubSeq(inflight, 1, i - 1) \o SubSeq(inflight, i + 1, Len(inflight))
    /\ IF outcome = <<>>
         THEN /\ NoDelivery
              /\ ObservePrediction(<<>>, "none")
              /\ UNCHANGED <<predictionBufferRef, currentGesture>>
         ELSE LET gesture == ClassifyGesture(outcome[1], outcome[2])
                  buf == PushToBuffer(predictionBufferRef, gesture)
                  consistentGesture == GetConsistentPrediction(buf)
              IN  /\ predictionBufferRef' = buf
                  /\ IF consistentGesture # "null" /\ outcome[2] > WebPredictionThreshold
                       THEN /\ TextFits(consistentGesture)
                            /\ currentGesture' = consistentGesture
                            /\ Deliver(consistentGesture)
                            /\ ObservePrediction(<<gesture, outcome[2]>>, consistentGesture)
                       ELSE /\ NoDelivery
                            /\ ObservePrediction(<<gesture, outcome[2]>>, "none")
                            /\ UNCHANGED currentGesture
    /\ UNCHANGED <<isLoading, isModelLoaded, modelRef, error, stream, lastPredictionTimeRef>>

\* <Button onClick={clearText}>
ClearTextClick ==
    /\ UserStep("clearText")
    /\ ClearText(<<>>)
    /\ delivered' = "none"
    /\ spoken' = "none"
    /\ UNCHANGED speechEnabled

\* <Button onClick={speakFullText} disabled={!recognizedText.trim()}>
SpeakClick ==
    /\ UserStep("speakFullText")
    /\ Trim(recognizedText) # ""
    /\ SpeakFullText(<<>>)
    /\ delivered' = "none"
    /\ UNCHANGED <<recognizedText, gestureHistory, speechEnabled>>

\* onClick={() => setSpeechEnabled(!speechEnabled)}
ToggleSpeech ==
    /\ UserStep("setSpeechEnabled")
    /\ speechEnabled' = ~speechEnabled
    /\ NoDelivery

\* handleGestureDetected called with a gesture: the component's contract
GestureDetected(gesture) ==
    /\ UserStep("handleGestureDetected")
    /\ TextFits(gesture)
    /\ Deliver(gesture)
    /\ UNCHANGED speechEnabled

\* gestures handed to handleGestureDetected directly
SinkGestures == {"Backspace", "g", " ", "UNKNOWN", "AUTO_SPEAK", "AUTO_CLEAR"}

WebInit ==
    /\ isLoading = TRUE
    /\ isModelLoaded = FALSE
    /\ modelRef = FALSE
    /\ error = "null"
    /\ stream = FALSE
    /\ animationFrameRef = "none"
    /\ predictionBufferRef = <<>>
    /\ lastPredictionTimeRef = PredFloor        \* useRef<number>(0): the epoch
    /\ lastDetectionTime = CurrentTime          \* useState<number>(Date.now())
    /\ spaceGestureStartTime = Null
    /\ autoSpeakTimerRef = NoTimer
    /\ autoClearTimerRef = NoTimer
    /\ currentGesture = "null"
    /\ inflight = <<>>
    /\ recognizedText = ""
    /\ gestureHistory = 0
    /\ speechEnabled = FALSE
    /\ lastStep = "mount"
    /\ tickTime = NoTick
    /\ raw = <<>>
    /\ delivered = "none"
    /\ spoken = "none"
    /\ toast = <<>>
    /\ rawSinceGesture = 0
    /\ rawAtDelivery = 0
    /\ clearsSinceSet = 0
    /\ holdSeenExpired = FALSE
    /\ idleSeenExpired = FALSE
    /\ predictionGap = NoGap


\* ======================================================================
\* Specifications
\* ======================================================================

\* Raw predictions handed to onPrediction: a tie at the threshold, a later
\* strictly greater entry, and an entry just below the threshold.
Predictions == { <<"A", 60>>, <<"B", 60>>, <<"g", 95>>, <<"DEL", 59>> }

\* Raw predictions that exercise the label interpretation: all are accepted.
InterpPredictions == { <<"DEL", 90>>, <<"g", 90>>, <<"y", 90>>, <<"1", 90>> }

AndroidInit ==
    /\ currentLetter = "..."
    /\ sentence = ""
    /\ confidence = 0
    /\ firstLetter = NoChar
    /\ predictionBuffer = <<>>
    /\ lastOutcome = "none"
    /\ lastTied = FALSE
    /\ callsSinceEmpty = 0
    /\ rawConfidence = <<>>
    /\ executor = ExecutorIdle
    /\ mainThread = "idle"

Predict == \E p \in Predictions : OnPrediction(p[1], p[2])

PredictInterp == \E p \in InterpPredictions : OnPrediction(p[1], p[2])

UseSuggestion == \E i \in 1..Len(Suggestions) : OnUseSuggestion(Suggestions[i])

ClearAll == OnClearAll

\* ---- the Android shell, the smoothing buffer under mixed confidences
Init == shell = "android" /\ AndroidInit /\ WebInit

Next == Predict \/ UseSuggestion \/ ClearAll

Spec == Init /\ [][Next]_vars

\* ---- the MediaPipe-based hook and the component
MediaPipeOutcomes == { <<2, 90>>, <<2, 50>>, <<>> }

MediaPipeLoad == \E ok \in BOOLEAN : MediaPipeLoadModel(ok)

MediaPipeStart == \E ok \in BOOLEAN : MediaPipeStartRecognition(ok)

MediaPipeStop == MediaPipeStopRecognition

OnResults == \E d \in FrameGaps : MakePredictionBegin(d)

PredictionResult ==
    \E i \in 1..Len(inflight), o \in MediaPipeOutcomes : MakePredictionResume(i, o)

NextMediaPipe ==
    \/ MediaPipeLoad \/ MediaPipeStart \/ MediaPipeStop
    \/ OnResults \/ PredictionResult \/ ClearTextClick

InitMediaPipe == shell = "web" /\ AndroidInit /\ WebInit

SpecMediaPipe == InitMediaPipe /\ [][NextMediaPipe]_vars

\* ---- the consensus buffer of the MediaPipe-based hook under three labels
\* ---- (C, G, UNCERTAIN) and a confidence exactly at the threshold; one frame
\* ---- with a hand every ThrottleMs
ConsensusOutcomes == { <<2, 90>>, <<3, 90>>, <<2, 70>>, <<2, 50>> }

ConsensusFrame == MakePredictionBegin(ThrottleMs)

ConsensusResult ==
    \E i \in 1..Len(inflight), o \in ConsensusOutcomes : MakePredictionResume(i, o)

NextConsensus ==
    \/ MediaPipeLoad \/ MediaPipeStart
    \/ ConsensusFrame \/ ConsensusResult \/ ClearTextClick

SpecConsensus == InitMediaPipe /\ [][NextConsensus]_vars

\* ---- both prediction windows: the Android smoothing buffer, or the
\* ---- MediaPipe-based hook with the component
NextWindows == Next \/ NextMediaPipe

InitWindows == shell \in {"android", "web"} /\ AndroidInit /\ WebInit

SpecWindows == InitWindows /\ [][NextWindows]_vars

\* ---- suggestion lookup: the Android shell right after a first letter was
\* ---- accepted (six calls of onPrediction with the analyzer's label for it),
\* ---- for every label 'A' + idx the analyzer produces
LetterConfidence == 90

AcceptedWindow(letter) == [i \in 1..BufferSize |-> <<letter, LetterConfidence>>]

InitLookup ==
    /\ shell = "android"
    /\ WebInit
    /\ \E letter \in Range(Uppers) :
         /\ currentLetter = letter
         /\ sentence = InterpretSentence(letter, "")
         /\ confidence = LetterConfidence
         /\ firstLetter = InterpretFirstLetter(letter, "", NoChar)
         /\ predictionBuffer = <<>>
         /\ lastOutcome = "accepted"
         /\ lastTied = Tied(AcceptedWindow(letter))
         /\ callsSinceEmpty = 0
         /\ rawConfidence = <<LetterConfidence>>
    /\ executor = ExecutorIdle
    /\ mainThread = "idle"

PredictDelete == OnPrediction("DEL", LetterConfidence)

NextLookup == PredictDelete \/ UseSuggestion \/ ClearAll

SpecLookup == InitLookup /\ [][NextLookup]_vars

\* ---- the analyzer under model outputs whose greatest entry is a confidence
\* ---- inside and outside [0,1]
ModelOutputs == { <<0, 150>>, <<1, 100>>, <<0, 0 - 10>> }

Analyze == \E o \in ModelOutputs : Analyzer(o[1], o[2])

NextAnalyzer == Analyze \/ ClearAll

SpecAnalyzer == Init /\ [][NextAnalyzer]_vars

\* ---- the Android shell with its two threads: the analyzer's executor
\* ---- thread hands over labels G and H, the UI thread clears and uses
\* ---- suggestions; the statements of both interleave freely
ThreadOutputs == { <<6, 90>>, <<7, 90>> }

ExecutorBuffers ==
    /\ executor.pc = "idle"
    /\ Len(predictionBuffer) < BufferSize
    /\ \E o \in ThreadOutputs : Analyzer(o[1], o[2])

ExecutorDecides ==
    \E o \in ThreadOutputs : OnPredictionDecide(PredictedChar(o[1]), o[2])

MainUsesSuggestion == mainThread = "idle" /\ UseSuggestion

NextThreads ==
    \/ ExecutorBuffers \/ ExecutorDecides
    \/ OnPredictionWriteSentence \/ OnPredictionWriteFirstLetter
    \/ OnClearAllSentence \/ OnClearAllFirstLetter
    \/ MainUsesSuggestion

SpecThreads == Init /\ [][NextThreads]_vars

\* ---- label interpretation: the Android shell under accepted labels, and the
\* ---- web component's handler called with each gesture
InitInterp == shell \in {"android", "web"} /\ AndroidInit /\ WebInit

HandleGesture == \E g \in SinkGestures : GestureDetected(g)

NextInterp ==
    \/ PredictInterp \/ UseSuggestion \/ ClearAll
    \/ HandleGesture \/ ClearTextClick \/ SpeakClick \/ ToggleSpeech

SpecInterp == InitInterp /\ [][NextInterp]_vars

\* ---- labels of every kind: the Android shell under accepted labels that are
\* ---- delete, space, a letter and a sentinel, and the web component's handler
\* ---- called with sentinels, commands and a label of two characters
LabelPredictions == { <<"DEL", 90>>, <<"SPACE", 90>>, <<"g", 90>>, <<"UNCERTAIN", 90>> }

LabelGestures == {"UNKNOWN", "UNCERTAIN", "next", "OK", "g", "Backspace", " ", "AUTO_SPEAK"}

PredictLabel == \E p \in LabelPredictions : OnPrediction(p[1], p[2])

HandleLabel == \E g \in LabelGestures : GestureDetected(g)

\* Button(onClick = { onSpeak(sentence) })
Speak == OnSpeak(sentence)

NextLabels ==
    \/ PredictLabel \/ ClearAll \/ Speak
    \/ HandleLabel \/ ClearTextClick \/ SpeakClick

SpecLabels == InitInterp /\ [][NextLabels]_vars

\* ---- the web hook driving the component
InitWeb == shell = "web" /\ AndroidInit /\ WebInit

Load == \E o \in {"missing", "throws", "loaded"} : LoadModel(o)

Start == \E ok \in BOOLEAN : StartRecognition(ok)

Stop == StopRecognition

Idle == \E d \in WaitGaps : Wait(d)

DemoFrame ==
    \E d \in FrameGaps, gi \in DemoChoices, c \in DemoConfidences :
        SimulateGestureDetection(d, gi, c)

RealFrame == \E d \in FrameGaps : RealGestureDetectionBegin(d)

RealResult == \E d \in AwaitDelays, o \in RealOutcomes : RealGestureDetectionResume(d, o)

NextWeb ==
    \/ Load \/ Start \/ Stop \/ Idle
    \/ DemoFrame \/ RealFrame \/ RealResult
    \/ AutoSpeakTimeout \/ AutoClearTimeout
    \/ ClearTextClick \/ SpeakClick

SpecWeb == InitWeb /\ [][NextWeb]_vars

\* ---- the demo loop kept running: frames keep coming (requestAnimationFrame
\* ---- re-schedules itself) and the user clears a full text
NextHold ==
    \/ Load \/ Start \/ Stop
    \/ DemoFrame \/ AutoClearTimeout
    \/ ClearTextClick

SpecHold ==
    /\ InitWeb
    /\ [][NextHold]_vars
    /\ WF_vars(DemoFrame)
    /\ WF_vars(ClearTextClick)

\* ======================================================================
\* Claims
\* ======================================================================

\* The entry a window decision must select: maximal confidence, and strictly
\* greater than every entry before it (the first-seen maximum).
FirstMaximum(w) ==
    CHOOSE i \in 1..Len(w) :
        /\ \A j \in 1..Len(w) : w[j][2] <= w[i][2]
        /\ \A j \in 1..(i - 1) : w[j][2] < w[i][2]

\* A step of onPrediction that takes the decision on a full window.
DecisionStep == Len(predictionBuffer) = BufferSize /\ predictionBuffer' = <<>>

\* C1: the decision taken on a window of BufferSize predictions selects the
\* first-seen entry of maximum confidence; currentLetter and confidence take
\* that entry's label and confidence, and the label is interpreted, if and only
\* if its confidence is >= PredictionThreshold; otherwise nothing but the
\* window changes.
C1_WindowDecision ==
    [][ DecisionStep =>
          LET w == predictionBuffer
              i == FirstMaximum(w)
          IN  IF w[i][2] >= PredictionThreshold
              THEN /\ currentLetter' = w[i][1]
                   /\ confidence' = w[i][2]
                   /\ lastOutcome' = "accepted"
              ELSE /\ lastOutcome' = "discarded"
                   /\ UNCHANGED <<currentLetter, confidence, sentence, firstLetter>>
      ]_vars

\* a decision was accepted on a window whose maximum occurred more than once,
\* exactly at the threshold
C1_Witness ==
    /\ lastOutcome = "accepted"
    /\ lastTied
    /\ confidence = PredictionThreshold
    /\ currentLetter = "B"

\* C2 (as claimed): counting onPrediction calls from an empty window, the
\* window is empty again after the BufferSize-th call.
C2_ClearedByFillingCall ==
    callsSinceEmpty = BufferSize => Len(predictionBuffer) = 0

\* C3 (as claimed): a gesture other than AUTO_SPEAK / AUTO_CLEAR is delivered
\* to onGestureDetected only as the decision of a completed window, that is
\* when BufferSize raw predictions have been made since the previous delivery.
C3_DeliveredPerWindow ==
    IsGesture(delivered) => rawAtDelivery = BufferSize

\* C4: idle edge-trigger.  The tick that finds a full idle period elapsed
\* schedules one AUTO_SPEAK and restarts the idle period, so no tick leaves the
\* idle period elapsed; a scheduled AUTO_SPEAK is never re-scheduled by a later
\* tick; AUTO_SPEAK is delivered exactly when the scheduled timeout fires, and
\* a scheduled timeout goes away only by firing or by stopRecognition.
C4_IdleEdgeTrigger ==
    /\ [](idleSeenExpired => /\ autoSpeakTimerRef = TimerDelayMs
                             /\ lastDetectionTime = tickTime)
    /\ [](tickTime # NoTick => tickTime - lastDetectionTime <= IdleTimeoutMs)
    /\ [][ (autoSpeakTimerRef # NoTimer /\ autoSpeakTimerRef' # NoTimer)
             => (autoSpeakTimerRef' <= autoSpeakTimerRef /\ ~idleSeenExpired') ]_vars
    /\ [][ (delivered' = "AUTO_SPEAK")
             <=> /\ autoSpeakTimerRef # NoTimer
                 /\ autoSpeakTimerRef' = NoTimer
                 /\ lastStep' # "stopRecognition" ]_vars

\* the real-model loop ran with no gesture in the history and no raw
\* prediction counted, and AUTO_SPEAK was delivered TimerDelayMs after the tick
\* that restarted the idle period
C4_Witness ==
    /\ delivered = "AUTO_SPEAK"
    /\ isModelLoaded /\ stream
    /\ gestureHistory = 0 /\ rawSinceGesture = 0
    /\ lastDetectionTime = CurrentTime - TimerDelayMs

\* C5: hold edge-trigger.  Between two settings of the hold clock AUTO_CLEAR
\* is delivered at most once; its delivery leaves the hold clock unset, and
\* no tick schedules an AUTO_CLEAR while the clock it reads is unset.
C5_HoldClearsOnce ==
    /\ [](clearsSinceSet <= 1)
    /\ [](delivered = "AUTO_CLEAR" => spaceGestureStartTime = Null)
    /\ [][ (spaceGestureStartTime = Null /\ autoClearTimerRef = NoTimer)
             => autoClearTimerRef' = NoTimer ]_vars

\* a tick of the demo loop ran after AUTO_CLEAR had fired for the hold, the
\* hold clock being unset and no timeout pending
C5_Witness ==
    /\ clearsSinceSet = 1
    /\ lastStep = "simulateGestureDetection"
    /\ tickTime # NoTick
    /\ spaceGestureStartTime = Null
    /\ autoClearTimerRef = NoTimer

\* C6 (as claimed): hold liveness.  Once a tick has found the running hold
\* older than HoldTimeoutMs, and frames keep coming, AUTO_CLEAR is eventually
\* delivered (unless the hold ends first).
C6_HoldLiveness ==
    holdSeenExpired ~> (delivered = "AUTO_CLEAR" \/ spaceGestureStartTime = Null)

\* C7 (as claimed): AUTO_CLEAR is delivered only while a hold is running: none
\* is delivered after a gesture other than space has unset the hold clock.
C7_NoClearAfterCancel ==
    [][ delivered' = "AUTO_CLEAR" => spaceGestureStartTime # Null ]_vars

C9_DeleteLastCharacter ==
    /\ [][ (DecisionStep /\ lastOutcome' = "accepted" /\ currentLetter' = "DEL")
             => /\ IF sentence = "" THEN sentence' = ""
                   ELSE sentence = sentence' \o SubSeq(sentence, Len(sentence), Len(sentence))
                /\ firstLetter' = firstLetter ]_vars
    /\ [][ (delivered' = "Backspace")
             => IF recognizedText = "" THEN recognizedText' = ""
                ELSE recognizedText = recognizedText'
                         \o SubSeq(recognizedText, Len(recognizedText), Len(recognizedText)) ]_vars

\* an accepted "DEL" has shortened a two-character sentence to its first one
C9_Witness ==
    /\ shell = "android"
    /\ lastOutcome = "accepted"
    /\ currentLetter = "DEL"
    /\ sentence = "1"

\* C10: an accepted single-character label is appended to the sentence;
\* firstLetter becomes its uppercase form exactly when it is a letter and no
\* first letter is recorded; a recorded firstLetter changes only by Clear-all,
\* which empties the sentence too.
C10_LetterAndFirstLetter ==
    /\ [][ (DecisionStep /\ lastOutcome' = "accepted" /\ Len(currentLetter') = 1)
             => /\ sentence' = sentence \o currentLetter'
                /\ firstLetter' = IF firstLetter = NoChar /\ IsLetter(currentLetter')
                                  THEN UppercaseChar(currentLetter')
                                  ELSE firstLetter ]_vars
    /\ [][ (firstLetter # NoChar /\ firstLetter' # firstLetter)
             => (firstLetter' = NoChar /\ sentence' = "") ]_vars
    /\ [](firstLetter \in Range(Uppers) \cup {NoChar})

\* a digit was appended without recording a first letter, then "g" was
\* appended and recorded as "G"
C10_Witness ==
    /\ firstLetter = "G"
    /\ sentence = "1g"
    /\ currentLetter = "g"

C12_BelowThresholdDiscard ==
    [][ (/\ Len(predictionBuffer) = BufferSize
         /\ \A i \in 1..BufferSize : predictionBuffer[i][2] < PredictionThreshold
         /\ predictionBuffer' # predictionBuffer)
          => /\ predictionBuffer' = <<>>
             /\ lastOutcome' = "discarded"
             /\ UNCHANGED <<currentLetter, confidence, sentence, firstLetter>> ]_vars

\* a window was discarded while a sentence and a first letter stood from an
\* earlier accepted decision
C12_Witness ==
    /\ lastOutcome = "discarded"
    /\ predictionBuffer = <<>>
    /\ sentence = "g"
    /\ firstLetter = "G"
    /\ currentLetter = "g"

\* C13: when AUTO_CLEAR is delivered, the text is emptied, the gesture history
\* is emptied and the hold clock is unset in that same step: the state after
\* the delivery holds none of them.
C13_AutoClearAtOnce ==
    /\ [](delivered = "AUTO_CLEAR"
            => /\ recognizedText = ""
               /\ gestureHistory = 0
               /\ spaceGestureStartTime = Null)
    /\ [][ delivered' = "AUTO_CLEAR"
             => /\ recognizedText' = ""
                /\ gestureHistory' = 0
                /\ spaceGestureStartTime' = Null
                /\ toast' = <<"Text Cleared", "Auto Clear">> ]_vars

\* AUTO_CLEAR was delivered by its timeout while the space gesture was the one
\* shown, and the hold is over
C13_Witness ==
    /\ delivered = "AUTO_CLEAR"
    /\ lastStep = "autoClearTimeout"
    /\ currentGesture = " "
    /\ ~holdSeenExpired

\* C14 (as claimed): a speak request on an empty sentence reports that there
\* is nothing to speak and hands nothing to the speech collaborator; on a
\* non-empty sentence it hands the whole sentence to the speech collaborator.
\* Web: the Speak button and AUTO_SPEAK; Android: the Speak button.
C14_SpeakRequest ==
    /\ [][ (lastStep' = "speakFullText" \/ delivered' = "AUTO_SPEAK")
             => IF recognizedText = ""
                THEN spoken' = "none" /\ toast'[1] = "No Text to Speak"
                ELSE spoken' = recognizedText ]_vars
    /\ [][ (shell = "android" /\ lastStep' = "onSpeak" /\ UNCHANGED androidVars)
             => IF sentence = ""
                THEN spoken' = "none" /\ toast' # <<>>
                ELSE spoken' = sentence ]_vars


\* ---------------------------------------------------------------- C15
\* The letters generateWordSuggestionsForLetter is asked about: both cases of
\* every letter, and two characters that are no letter.
LookupLetters == Range(Lowers) \cup Range(Uppers) \cup {"1", " "}

\* Positions of the dictionary words whose first character is the letter in
\* either case.
MatchPositions(letter) ==
    { i \in 1..Len(SuggestionDb) :
        /\ Len(SuggestionDb[i]) >= 1
        /\ SubSeq(SuggestionDb[i], 1, 1) \in {letter, UppercaseChar(letter), LowercaseChar(letter)} }

\* The j-th matching position in dictionary order.
NthMatch(positions, j) ==
    CHOOSE i \in positions : Cardinality({ m \in positions : m <= i }) = j

FirstMatches(result, letter) ==
    LET positions == MatchPositions(letter)
        k == Cardinality(positions)
    IN  /\ Len(result) = IF k < MaxSuggestions THEN k ELSE MaxSuggestions
        /\ \A j \in 1..Len(result) : result[j] = SuggestionDb[NthMatch(positions, j)]

\* C15: for any letter, generateWordSuggestionsForLetter returns exactly the
\* first min(4, k) of the k dictionary words that start with that letter in
\* either case, in dictionary order, and the empty list when none matches;
\* the suggestions shown for the current first letter are that list.
C15_SuggestionLookup ==
    /\ \A letter \in LookupLetters :
           FirstMatches(GenerateWordSuggestionsForLetter(letter), letter)
    /\ firstLetter # NoChar => FirstMatches(Suggestions, firstLetter)

\* The first letter is G (six dictionary words match, four are returned) and
\* one of the returned words has been taken as the sentence.
C15_Witness ==
    /\ firstLetter = "G"
    /\ Suggestions = <<"good", "great", "go", "game">>
    /\ sentence = "game"


\* ---------------------------------------------------------------- C16
Clamp(conf) == IF conf < 0 THEN 0 ELSE IF conf > 100 THEN 100 ELSE conf

\* C16: a model output whose confidence lies outside [0,1] is not rejected:
\* while the window has room it is appended with its confidence clamped to
\* [0,1], and an accepted window's confidence is therefore never above 1.
C16_OutOfRangeClamped ==
    /\ [][ (/\ rawConfidence' # rawConfidence
            /\ Len(predictionBuffer) < BufferSize)
             => /\ Len(predictionBuffer') = Len(predictionBuffer) + 1
                /\ SubSeq(predictionBuffer', 1, Len(predictionBuffer)) = predictionBuffer
                /\ predictionBuffer'[Len(predictionBuffer')][2] = Clamp(rawConfidence'[1]) ]_vars
    /\ [](lastOutcome = "accepted" => confidence <= 100)


\* ---------------------------------------------------------------- C17
\* C17: once stopRecognition has returned and until recognition is started
\* again, nothing is delivered to onGestureDetected (no gesture, AUTO_SPEAK or
\* AUTO_CLEAR), no frame is scheduled and no auto-action timer is pending,
\* whenever the stop occurred.
C17_QuietAfterStop ==
    /\ [][ (~stream /\ ~stream') => delivered' = "none" ]_vars
    /\ [](~stream => /\ animationFrameRef = "none"
                     /\ autoSpeakTimerRef = NoTimer
                     /\ autoClearTimerRef = NoTimer)


\* ---------------------------------------------------------------- C18
\* C18: raw predictions are processed one at a time in arrival order: at most
\* one prediction is in flight at any moment, and a prediction that completes
\* is the earliest one still in flight.
C18_OneAtATime ==
    /\ [](Len(inflight) <= 1)
    /\ [][ Len(inflight') < Len(inflight) => inflight' = Tail(inflight) ]_vars


\* ---------------------------------------------------------------- C19
\* C19: both timeout comparisons are inclusive.  A tick at which the idle
\* clock is exactly 6000 ms old sets the auto-speak timer (and restarts the
\* clock, so after a tick the clock is never left exactly 6000 ms old without
\* the timer), and a tick at which the hold clock is exactly 5000 ms old sets
\* the auto-clear timer.
C19_InclusiveTimeouts ==
    /\ []((/\ tickTime # NoTick
           /\ tickTime - lastDetectionTime = IdleTimeoutMs)
            => autoSpeakTimerRef = TimerDelayMs)
    /\ []((/\ tickTime # NoTick
           /\ spaceGestureStartTime # Null
           /\ tickTime - spaceGestureStartTime = HoldTimeoutMs)
            => autoClearTimerRef = TimerDelayMs)


\* ---------------------------------------------------------------- C20
\* C20: bounded prediction rate.  With the model, an inference run of the web
\* loop starts more than 500 ms after the previous one; in demo mode a
\* simulated gesture comes more than 2000 ms after the previous one.
C20_BoundedRate ==
    /\ lastPredictionTimeRef <= CurrentTime
    /\ (predictionGap # NoGap /\ inflight # <<>>) => predictionGap > RealIntervalMs
    /\ (predictionGap # NoGap /\ inflight = <<>>) => predictionGap > DemoIntervalMs

\* A run of the model has started 550 ms after the previous one, whose
\* gesture was delivered.
C20_Witness ==
    /\ inflight # <<>>
    /\ predictionGap = RealIntervalMs + 50
    /\ gestureHistory >= 1


\* ---------------------------------------------------------------- C21
\* C21: model-load fallback.  Whatever its outcome, loadModel ends with
\* isLoading false and error null, and with isModelLoaded true exactly when a
\* model was stored; a session started afterwards runs the real loop when the
\* model is loaded and the demo loop otherwise, with no error set.
C21_LoadFallback ==
    /\ [][ lastStep' = "loadModel"
             => /\ ~isLoading' /\ error' = "null"
                /\ isModelLoaded' = modelRef' ]_vars
    /\ [][ (lastStep' = "startRecognition" /\ stream')
             => /\ error' = "null"
                /\ animationFrameRef' = IF isModelLoaded THEN "real" ELSE "simulate" ]_vars
    /\ [](~isModelLoaded => animationFrameRef # "real" /\ inflight = <<>>)

\* No model was loaded, and the session started after it has delivered a
\* simulated gesture.
C21_Witness ==
    /\ ~isLoading /\ ~isModelLoaded /\ error = "null"
    /\ stream
    /\ lastStep = "simulateGestureDetection"
    /\ IsGesture(delivered)


\* ---------------------------------------------------------------- C22
\* C22: a session starts with fresh state.  The callback that follows a
\* successful startRecognition (a frame at most 150 ms later) schedules no
\* AUTO_SPEAK, the idle period having begun at the start; and at the start no
\* hold clock is set and the prediction window is empty.
C22_FreshSession ==
    /\ [][ (lastStep = "startRecognition" /\ stream)
             => autoSpeakTimerRef' = NoTimer ]_vars
    /\ []((lastStep = "startRecognition" /\ stream)
             => /\ spaceGestureStartTime = Null
                /\ predictionBufferRef = <<>>
                /\ autoSpeakTimerRef = NoTimer
                /\ autoClearTimerRef = NoTimer)


\* ---------------------------------------------------------------- C23
\* C23: a prediction window never holds more than bufferSize entries: neither
\* the Android predictionBuffer nor, after any makePrediction call, the
\* predictionBufferRef of the MediaPipe-based hook.
C23_WindowBounded ==
    /\ Len(predictionBuffer) <= BufferSize
    /\ Len(predictionBufferRef) <= MediaPipeBufferSize

\* The MediaPipe-based hook has delivered twice, so a sixth label was pushed
\* onto a full buffer, and the buffer holds bufferSize labels.
C23_Witness ==
    /\ shell = "web"
    /\ lastStep = "makePrediction"
    /\ gestureHistory >= 2
    /\ raw # <<>>
    /\ Len(predictionBufferRef) = MediaPipeBufferSize


\* ---------------------------------------------------------------- C24
\* C24: every prediction passed to onPrediction is appended to the window and
\* takes part in one decision.  A call made while the window has room appends
\* its prediction; the call that triggers a decision has its own prediction
\* among the entries considered, so a triggering prediction whose confidence
\* reaches the threshold and exceeds every buffered one is the one accepted.
C24_EveryPredictionCounts ==
    /\ [][ (Len(predictionBuffer) < BufferSize /\ predictionBuffer' # predictionBuffer)
             => /\ Len(predictionBuffer') = Len(predictionBuffer) + 1
                /\ SubSeq(predictionBuffer', 1, Len(predictionBuffer)) = predictionBuffer
                /\ predictionBuffer'[Len(predictionBuffer')][2] = rawConfidence'[1] ]_vars
    /\ [][ (/\ DecisionStep
            /\ rawConfidence'[1] >= PredictionThreshold
            /\ \A i \in 1..BufferSize : predictionBuffer[i][2] < rawConfidence'[1])
             => (lastOutcome' = "accepted" /\ confidence' = rawConfidence'[1]) ]_vars


\* ---------------------------------------------------------------- C25
\* C25: the hold clock records the start of the hold.  It goes from unset to
\* set only by a delivered space gesture, and then holds the time of that
\* frame; a space gesture delivered while it is set leaves it at its older
\* value (so the hold is measured from the first space of the run); a
\* delivered gesture other than space leaves it unset.
C25_HoldFromFirstSpace ==
    /\ [][ (spaceGestureStartTime = Null /\ spaceGestureStartTime' # Null)
             => (delivered' = " " /\ spaceGestureStartTime' = tickTime') ]_vars
    /\ [][ (spaceGestureStartTime # Null /\ delivered' = " ")
             => /\ spaceGestureStartTime' # Null
                /\ spaceGestureStartTime' <= spaceGestureStartTime
                /\ spaceGestureStartTime' < tickTime' ]_vars
    /\ [][ (IsGesture(delivered') /\ delivered' # " ")
             => spaceGestureStartTime' = Null ]_vars

\* A second space gesture was delivered 2050 ms or more into a running hold,
\* and the hold clock still shows the older start.
C25_Witness ==
    /\ delivered = " "
    /\ lastStep = "simulateGestureDetection"
    /\ gestureHistory >= 2
    /\ spaceGestureStartTime # Null
    /\ tickTime - spaceGestureStartTime > DemoIntervalMs


\* ---------------------------------------------------------------- C26
\* Number of entries of buf equal to g, counted entry by entry.
RECURSIVE Occurrences(_, _)
Occurrences(buf, g) ==
    IF buf = <<>> THEN 0
    ELSE (IF Head(buf) = g THEN 1 ELSE 0) + Occurrences(Tail(buf), g)

\* C26: majority consensus.  makePrediction delivers a gesture exactly when,
\* after its push, the buffer holds bufferSize labels, some label occurs at
\* least ceil(0.6 * bufferSize) = 3 times among them, and the confidence of
\* the current prediction is strictly above predictionThreshold; the gesture
\* delivered is that label.
C26_MajorityConsensus ==
    (lastStep = "makePrediction" /\ raw # <<>>)
        => /\ IsGesture(delivered)
                => /\ Len(predictionBufferRef) = MediaPipeBufferSize
                   /\ Occurrences(predictionBufferRef, delivered) >= 3
                   /\ raw[2] > WebPredictionThreshold
           /\ (/\ Len(predictionBufferRef) = MediaPipeBufferSize
               /\ raw[2] > WebPredictionThreshold
               /\ \E i \in 1..Len(predictionBufferRef) :
                      Occurrences(predictionBufferRef, predictionBufferRef[i]) >= 3)
                => IsGesture(delivered)

\* A full buffer with three labels C and two labels G, and C was delivered.
C26_Witness ==
    /\ lastStep = "makePrediction"
    /\ delivered = "C"
    /\ Occurrences(predictionBufferRef, "C") = 3
    /\ Occurrences(predictionBufferRef, "G") = 2


\* ---------------------------------------------------------------- C27
\* C27: the MediaPipe-based hook never delivers the sentinel UNCERTAIN, and
\* the confidence delivered belongs to a prediction of the delivered label:
\* the prediction of the delivering call has that label.
C27_NoSentinelDelivered ==
    (lastStep = "makePrediction" /\ IsGesture(delivered))
        => /\ delivered # "UNCERTAIN"
           /\ raw[1] = delivered


\* ---------------------------------------------------------------- C28
\* C28: in real-model mode no label of GESTURE_MAPPING (indices 0..7, and
\* UNKNOWN for any other index) is the space gesture; once the model is
\* loaded spaceGestureStartTime stays null, no auto-clear timer is ever set
\* and AUTO_CLEAR is never delivered.  AUTO_CLEAR is delivered in demo mode
\* only.
C28_NoSpaceInRealMode ==
    /\ \A i \in 0..8 : GestureMapping(i) # " "
    /\ isModelLoaded
         => /\ spaceGestureStartTime = Null
            /\ autoClearTimerRef = NoTimer
            /\ delivered # "AUTO_CLEAR"
            /\ delivered # " "
    /\ delivered = "AUTO_CLEAR" => (~isModelLoaded /\ lastStep = "autoClearTimeout")

\* A real-mode session that has delivered several gestures and then an
\* AUTO_SPEAK, the hold clock still unset.
C28_Witness ==
    /\ isModelLoaded
    /\ stream
    /\ gestureHistory >= 2
    /\ delivered = "AUTO_SPEAK"
    /\ spaceGestureStartTime = Null

\* AUTO_CLEAR delivered in demo mode.
C28_WitnessDemo ==
    /\ ~isModelLoaded
    /\ delivered = "AUTO_CLEAR"


\* ---------------------------------------------------------------- C29
\* C29: in the Android shell every label the analyzer hands to onPrediction
\* is one of 'A'..'Z'.  A step of onPrediction (one that changes the window)
\* never shortens the sentence: an accepted decision appends exactly one
\* uppercase letter, the accepted label, and any other call leaves the
\* sentence as it is.  Only a user action makes the sentence shorter.
C29_LettersOnly ==
    /\ [](\A i \in 1..Len(predictionBuffer) : predictionBuffer[i][1] \in Range(Uppers))
    /\ [][ predictionBuffer' # predictionBuffer
             => IF DecisionStep /\ lastOutcome' = "accepted"
                  THEN /\ currentLetter' \in Range(Uppers)
                       /\ sentence' = sentence \o currentLetter'
                       /\ Len(sentence') = Len(sentence) + 1
                  ELSE sentence' = sentence ]_vars
    /\ [][ Len(sentence') < Len(sentence) => predictionBuffer' = predictionBuffer ]_vars

\* Two accepted decisions in a row have appended A and then B.
C29_Witness ==
    /\ shell = "android"
    /\ sentence = "AB"
    /\ currentLetter = "B"
    /\ lastOutcome = "accepted"
    /\ predictionBuffer = <<>>


\* ---------------------------------------------------------------- C30
\* C30: Android Clear-all is not lost under interleaving of the executor
\* thread (onPrediction) and the UI thread (onClearAll, onUseSuggestion).
\* An append that lands on a sentence Clear-all has emptied yields the new
\* character alone, nothing read before the clear comes back; and whenever
\* both threads are outside their callbacks an empty sentence has no first
\* letter, so no first letter of a character removed by the clear remains.
C30_ClearNotLost ==
    /\ [][ (executor.pc = "sentence" /\ executor'.pc # "sentence" /\ sentence = "")
              => sentence' = InterpretSentence(executor.label, "") ]_vars
    /\ []((executor.pc = "idle" /\ mainThread = "idle" /\ sentence = "")
              => firstLetter = NoChar)

====
